---------------------------- MODULE Spec2Model ----------------------------
(***************************************************************************)
(* A model of main.py: a read-eval-print loop for the untyped lambda       *)
(* calculus.  Each input line goes through scan, parse, interpret and      *)
(* textify.  parse and interpret are modelled twice: as call-stack         *)
(* machines, one action per step of the code, so that loops, crashes and   *)
(* recursion depth are visible, and interpret also as a recursive          *)
(* operator, for the statements about its result.                          *)
(*                                                                         *)
(* Text is a sequence of characters.  A character is a one-character       *)
(* string, except for the characters below, which are named.               *)
(* Tuples follow the Python tuples of the source, with indices one higher: *)
(* a token is <<kind, payload>>, a term is <<"VAR", name>>,                *)
(* <<"ABS", var, body>> or <<"APP", fn, arg>>.                             *)
(***************************************************************************)
EXTENDS Integers, Sequences, FiniteSets, TLC

\* The lambda glyph of the source: U+1D6CC, MATHEMATICAL BOLD SMALL LAMDA.
BoldLamda == "U+1D6CC"
\* The glyph the specification writes: U+03BB, GREEK SMALL LETTER LAMDA.
GreekLambda == "U+03BB"
Backslash == "\\"
Space == " "
Tab == "\t"
Newline == "\n"

\* Python's None, the value of a function that falls off its end.
None == <<"NONE">>

\* ---------------------------------------------------------------- bounds
\* Longest line made of arbitrary characters.
MaxScanLen == 2
\* Longest line made of the characters that give the five token kinds.
MaxLen == 4
\* Most nodes (Var, Abs, App) of an enumerated term.
MaxSize == 6
\* Most nodes of an enumerated term whose names are no letters.
MaxOddSize == 4
\* Most lines of a multi-line input.
MaxLines == 2

\* --------------------------------------------------------------- scanner
Token(kind, payload) == <<kind, payload>>

\* ScanChar with every white-space character skipped, not the space alone.
ScanCharSkipsBlanks(c) ==
    CASE c \in {Space, Tab, Newline} -> <<>>
      [] c \in {BoldLamda, Backslash} -> <<Token("LAMBDA", "")>>
      [] c = "." -> <<Token("DOT", "")>>
      [] c = "(" -> <<Token("LEFT_PAREN", "")>>
      [] c = ")" -> <<Token("RIGHT_PAREN", "")>>
      [] OTHER -> <<Token("ID", c)>>

\* The tokens one character gives: the body of scan's loop.
ScanChar(c) ==
    CASE c = Space -> <<>>
      [] c \in {BoldLamda, Backslash} -> <<Token("LAMBDA", "")>>
      [] c = "." -> <<Token("DOT", "")>>
      [] c = "(" -> <<Token("LEFT_PAREN", "")>>
      [] c = ")" -> <<Token("RIGHT_PAREN", "")>>
      [] OTHER -> <<Token("ID", c)>>

RECURSIVE scan(_)
scan(text) ==
    IF text = <<>> THEN <<>>
    ELSE ScanChar(Head(text)) \o scan(Tail(text))

\* --------------------------------------------------------------- printer
\* textify of a term that holds no None.
RECURSIVE textify(_)
textify(term) ==
    CASE term[1] = "VAR" -> IF term[2] = "" THEN <<>> ELSE <<term[2]>>
      [] term[1] = "ABS" ->
            <<"(", BoldLamda>> \o (IF term[2][2] = "" THEN <<>> ELSE <<term[2][2]>>)
               \o <<".">> \o textify(term[3]) \o <<")">>
      [] term[1] = "APP" -> <<"(">> \o textify(term[2]) \o textify(term[3]) \o <<")">>

\* Whether a None stands where textify expects a term: term[0] then raises
\* TypeError.
RECURSIVE textifyRaises(_)
textifyRaises(term) ==
    CASE term = None -> TRUE
      [] term[1] = "VAR" -> FALSE
      [] term[1] = "ABS" -> textifyRaises(term[3])
      [] term[1] = "APP" -> textifyRaises(term[2]) \/ textifyRaises(term[3])

\* ----------------------------------------------------------------- terms
Var(name) == <<"VAR", name>>
Abs(v, body) == <<"ABS", v, body>>
App(fn, arg) == <<"APP", fn, arg>>

\* The variable names of the enumerated terms.
Names == {"x", "y"}
\* Names that are no letters: scan makes an identifier of each.
OddNames == {GreekLambda, Tab}

\* The terms of exactly n nodes over the names.
RECURSIVE TermsOfSize(_, _)
TermsOfSize(names, n) ==
    IF n < 1 THEN {}
    ELSE IF n = 1 THEN {Var(a) : a \in names}
    ELSE {Abs(Var(a), b) : a \in names, b \in TermsOfSize(names, n - 1)}
         \cup UNION {{App(f, a) : f \in TermsOfSize(names, k),
                                  a \in TermsOfSize(names, n - 1 - k)}
                     : k \in 1..(n - 2)}

Terms == UNION {TermsOfSize(Names, n) : n \in 1..MaxSize}
            \cup UNION {TermsOfSize(OddNames, n) : n \in 1..MaxOddSize}

\* A tree of Var, Abs and App nodes, with no None in it.
RECURSIVE WellFormed(_)
WellFormed(t) ==
    CASE t = None -> FALSE
      [] t[1] = "VAR" -> TRUE
      [] t[1] = "ABS" -> WellFormed(t[3])
      [] t[1] = "APP" -> WellFormed(t[2]) /\ WellFormed(t[3])

\* ---------------------------------------------------------------- inputs
RECURSIVE StringsUpTo(_, _)
StringsUpTo(alphabet, n) ==
    IF n = 0 THEN {<<>>}
    ELSE LET shorter == StringsUpTo(alphabet, n - 1)
         IN shorter \cup {Append(s, c) : s \in shorter, c \in alphabet}

\* One character for each case of scan, and the characters the
\* specification names.
AllChars == {Space, BoldLamda, Backslash, ".", "(", ")", "x",
             GreekLambda, Tab, Newline}
\* One character for each token kind.
TokenChars == {Backslash, ".", "(", ")", "x"}

IdentityLine == <<"(", "(", BoldLamda, "x", ".", "x", ")", "y", ")">>
IdentityLineAscii == <<"(", "(", Backslash, "x", ".", "x", ")", "y", ")">>
IdentityLineGreek == <<"(", "(", GreekLambda, "x", ".", "x", ")", "y", ")">>
KLine == <<"(", "(", BoldLamda, "x", ".", "(", BoldLamda, "y", ".", "x", ")", ")", "z", ")">>
KLineAscii == <<"(", "(", Backslash, "x", ".", "(", Backslash, "y", ".", "x", ")", ")", "z", ")">>
KLineGreek == <<"(", "(", GreekLambda, "x", ".", "(", GreekLambda, "y", ".", "x", ")", ")", "z", ")">>
ShadowLine == <<"(", "(", BoldLamda, "x", ".", "(", BoldLamda, "x", ".", "x", ")", ")", "z", ")">>
SubstLine == <<"(", "(", BoldLamda, "x", ".", "(", "x", "y", ")", ")", "z", ")">>
SpacedLine == <<"(", Space, Space, BoldLamda, Space, "x", Space, ".", Space, "x", Space, ")">>

ExampleLines == {IdentityLine, IdentityLineAscii, IdentityLineGreek, KLine,
                 KLineAscii, KLineGreek, ShadowLine, SubstLine, SpacedLine}

\* What textify prints for each enumerated term.
TextOf == [t \in Terms |-> textify(t)]
TermLines == {TextOf[t] : t \in Terms}

\* A last line: the input may end without a newline.
LastLines == StringsUpTo(AllChars, MaxScanLen) \cup StringsUpTo(TokenChars, MaxLen)
                \cup TermLines \cup ExampleLines

\* Lines as the iteration over sys.stdin gives them when more follow: each
\* ends with a newline.
ReplLines == {<<"x", Newline>>, <<Newline>>, <<")", Newline>>, <<"(", Newline>>,
              <<"(", Backslash, Newline>>, Append(IdentityLineAscii, Newline)}

RECURSIVE SeqsUpTo(_, _)
SeqsUpTo(S, n) ==
    IF n = 0 THEN {<<>>}
    ELSE LET shorter == SeqsUpTo(S, n - 1)
         IN shorter \cup {Append(s, e) : s \in shorter, e \in S}

Inputs == {<<l>> : l \in LastLines \ {<<>>}} \cup SeqsUpTo(ReplLines, MaxLines)


\* ------------------------------------------------------------ environment
\* An environment is a sequence of frames, the newest last; a frame is a
\* one-entry dict, here a function on a one-element domain.
Frame(key, val) == key :> val

\* find without `reversed`: the frames from the oldest to the newest.
RECURSIVE findOldestFirst(_, _)
findOldestFirst(env, var) ==
    IF env = <<>> THEN <<FALSE, "">>
    ELSE IF var \in DOMAIN Head(env) THEN <<TRUE, Head(env)[var]>>
    ELSE findOldestFirst(Tail(env), var)

\* find of interpret: the frames from the newest to the oldest.
RECURSIVE find(_, _)
find(env, var) ==
    IF env = <<>> THEN <<FALSE, "">>
    ELSE LET d == env[Len(env)]
         IN IF var \in DOMAIN d THEN <<TRUE, d[var]>>
            ELSE find(SubSeq(env, 1, Len(env) - 1), var)

\* interpret as a function, for a term that holds no None.
RECURSIVE interpret(_, _)
interpret(ast, env) ==
    CASE ast[1] = "VAR" ->
            LET r == find(env, ast) IN IF r[1] THEN r[2] ELSE ast
      [] ast[1] = "ABS" ->
            <<ast[1], ast[2], interpret(ast[3], Append(env, Frame(ast[2], ast[2])))>>
      [] ast[1] = "APP" ->
            IF ast[2][1] = "ABS"
            THEN interpret(ast[2][3],
                           Append(env, Frame(ast[2][2], interpret(ast[3], env))))
            ELSE ast

\* ------------------------------------------------------------------ state
VARIABLES
    stdin,    \* the lines not yet read
    stdout,   \* what has been printed, oldest first
    pc,       \* where repl is: "start", "read", "scan", "parse", "interpret",
              \* "print", "exited" (end of input), "crashed" (uncaught exception)
    line,     \* the line being processed
    tokens,   \* scan(line)
    i,        \* the cursor of parse, counted from 0 as in the source
    pstack,   \* the calls of parse's term and abs in progress, innermost last
    ast,      \* parse's result
    istack,   \* the calls of interpret in progress, innermost last
    ret,      \* the value the last finished call returned
    value,    \* interpret's result
    error     \* the exception that ended the process, or ""

vars == <<stdin, stdout, pc, line, tokens, i, pstack, ast, istack, ret, value, error>>

Prompt == <<">", Space>>

Init ==
    /\ stdin \in Inputs
    /\ stdout = <<>>
    /\ pc = "start"
    /\ line = <<>>
    /\ tokens = <<>>
    /\ i = 0
    /\ pstack = <<>>
    /\ ast = None
    /\ istack = <<>>
    /\ ret = None
    /\ value = None
    /\ error = ""

\* The kind of the token at cursor k (tokens[k][0] of the source).
KindAt(k) == tokens[k + 1][1]
PayloadAt(k) == tokens[k + 1][2]

PFrame(fn, at) == [fn |-> fn, pc |-> at, res1 |-> None, v |-> None]
IFrame(t, env) == [ast |-> t, env |-> env, pc |-> "start"]

Top(stack) == stack[Len(stack)]
Pop(stack) == SubSeq(stack, 1, Len(stack) - 1)
SetTop(stack, f) == [stack EXCEPT ![Len(stack)] = f]

\* An uncaught exception ends the process.
Raise(exc) ==
    /\ pc' = "crashed"
    /\ error' = exc

\* ------------------------------------------------------------------- repl
\* repl prints the first prompt.
PrintPrompt ==
    /\ pc = "start"
    /\ stdout' = Append(stdout, Prompt)
    /\ pc' = "read"
    /\ UNCHANGED <<stdin, line, tokens, i, pstack, ast, istack, ret, value, error>>

\* The for loop takes the next line.
ReadLine ==
    /\ pc = "read"
    /\ stdin # <<>>
    /\ line' = Head(stdin)
    /\ stdin' = Tail(stdin)
    /\ pc' = "scan"
    /\ UNCHANGED <<stdout, tokens, i, pstack, ast, istack, ret, value, error>>

\* The for loop ends with the input, and repl returns.
EndOfInput ==
    /\ pc = "read"
    /\ stdin = <<>>
    /\ pc' = "exited"
    /\ UNCHANGED <<stdin, stdout, line, tokens, i, pstack, ast, istack, ret, value, error>>

\* scan(line), and the call of parse: i = 0, then term().
Scan ==
    /\ pc = "scan"
    /\ tokens' = scan(line)
    /\ i' = 0
    /\ pstack' = <<PFrame("term", "while")>>
    /\ pc' = "parse"
    /\ UNCHANGED <<stdin, stdout, line, ast, istack, ret, value, error>>

\* ------------------------------------------------------------------ parse
\* A call of term or abs returns r to its caller.
PReturn(r, cursor) ==
    /\ pstack' = Pop(pstack)
    /\ ret' = r
    /\ i' = cursor
    /\ UNCHANGED <<pc, error>>

\* A call of term() from the frame on top, which goes on at `back`.
PCallTerm(back, cursor) ==
    /\ pstack' = Append(SetTop(pstack, [Top(pstack) EXCEPT !.pc = back]),
                        PFrame("term", "while"))
    /\ i' = cursor
    /\ UNCHANGED <<ret, pc, error>>

InTerm(at) == pc = "parse" /\ pstack # <<>> /\ Top(pstack).fn = "term" /\ Top(pstack).pc = at
InAbs(at) == pc = "parse" /\ pstack # <<>> /\ Top(pstack).fn = "abs" /\ Top(pstack).pc = at

\* term: `while i < len(tokens)`; past the end the loop is left and term
\* returns None.
TermWhile ==
    /\ InTerm("while")
    /\ IF i < Len(tokens)
       THEN /\ pstack' = SetTop(pstack, [Top(pstack) EXCEPT !.pc = "match"])
            /\ UNCHANGED <<i, ret, pc, error>>
       ELSE PReturn(None, i)
    /\ UNCHANGED <<stdin, stdout, line, tokens, ast, istack, value>>

\* term: `case Token.ID: return var()`.
TermId ==
    /\ InTerm("match")
    /\ KindAt(i) = "ID"
    /\ PReturn(Var(PayloadAt(i)), i + 1)
    /\ UNCHANGED <<stdin, stdout, line, tokens, ast, istack, value>>

\* term: `case Token.LEFT_PAREN`: tokens[i + 1] is read, which raises
\* IndexError at the last token; then abs() or the first term() is called.
TermLeftParen ==
    /\ InTerm("match")
    /\ KindAt(i) = "LEFT_PAREN"
    /\ IF i + 1 >= Len(tokens)
       THEN /\ Raise("IndexError")
            /\ UNCHANGED <<i, pstack, ret>>
       ELSE IF KindAt(i + 1) = "LAMBDA"
       THEN /\ pstack' = Append(SetTop(pstack, [Top(pstack) EXCEPT !.pc = "abs_ret"]),
                                PFrame("abs", "start"))
            /\ i' = i + 1
            /\ UNCHANGED <<ret, pc, error>>
       ELSE PCallTerm("app1_ret", i + 1)
    /\ UNCHANGED <<stdin, stdout, line, tokens, ast, istack, value>>

\* term: no case of the match takes a LAMBDA, DOT or RIGHT_PAREN token, and
\* the while loop tests its condition again, with i as it was.
TermNoCase ==
    /\ InTerm("match")
    /\ KindAt(i) \notin {"ID", "LEFT_PAREN"}
    /\ pstack' = SetTop(pstack, [Top(pstack) EXCEPT !.pc = "while"])
    /\ UNCHANGED <<i, ret, pc, error>>
    /\ UNCHANGED <<stdin, stdout, line, tokens, ast, istack, value>>

\* abs: `i += 1; v = var(); i += 1`, then term() is called for the body.
\* var reads tokens[i], whatever its kind, and raises IndexError past the end.
AbsStart ==
    /\ InAbs("start")
    /\ IF i + 1 >= Len(tokens)
       THEN /\ Raise("IndexError")
            /\ UNCHANGED <<i, pstack, ret>>
       ELSE /\ pstack' = Append(SetTop(pstack, [Top(pstack) EXCEPT
                                    !.v = Var(PayloadAt(i + 1)), !.pc = "body_ret"]),
                                PFrame("term", "while"))
            /\ i' = i + 3
            /\ UNCHANGED <<ret, pc, error>>
    /\ UNCHANGED <<stdin, stdout, line, tokens, ast, istack, value>>

\* abs: `return (Term.ABS, v, term())`.
AbsReturn ==
    /\ InAbs("body_ret")
    /\ PReturn(Abs(Top(pstack).v, ret), i)
    /\ UNCHANGED <<stdin, stdout, line, tokens, ast, istack, value>>

\* term: `res = abs(); i += 1; return res`.
TermAbsReturn ==
    /\ InTerm("abs_ret")
    /\ PReturn(ret, i + 1)
    /\ UNCHANGED <<stdin, stdout, line, tokens, ast, istack, value>>

\* term: `res1 = term()`, then the second term() is called.
TermApp1Return ==
    /\ InTerm("app1_ret")
    /\ pstack' = Append(SetTop(pstack, [Top(pstack) EXCEPT !.res1 = ret, !.pc = "app2_ret"]),
                        PFrame("term", "while"))
    /\ UNCHANGED <<i, ret, pc, error>>
    /\ UNCHANGED <<stdin, stdout, line, tokens, ast, istack, value>>

\* TermApp2Return without the `i += 1` that consumes the closing parenthesis.
TermApp2ReturnNoSkip ==
    /\ InTerm("app2_ret")
    /\ PReturn(App(Top(pstack).res1, ret), i)
    /\ UNCHANGED <<stdin, stdout, line, tokens, ast, istack, value>>

\* term: `res2 = term(); i += 1; return (Term.APP, res1, res2)`.
TermApp2Return ==
    /\ InTerm("app2_ret")
    /\ PReturn(App(Top(pstack).res1, ret), i + 1)
    /\ UNCHANGED <<stdin, stdout, line, tokens, ast, istack, value>>

\* parse returns what its term() returned, and interpret(ast, []) is called.
ParseReturn ==
    /\ pc = "parse"
    /\ pstack = <<>>
    /\ ast' = ret
    /\ istack' = <<IFrame(ret, <<>>)>>
    /\ pc' = "interpret"
    /\ UNCHANGED <<stdin, stdout, line, tokens, i, pstack, ret, value, error>>

\* -------------------------------------------------------------- interpret
IReturn(r) ==
    /\ istack' = Pop(istack)
    /\ ret' = r
    /\ UNCHANGED <<pc, error>>

\* A call of interpret(t, env) from the frame on top, which goes on at `back`.
ICall(back, t, env) ==
    /\ istack' = Append(SetTop(istack, [Top(istack) EXCEPT !.pc = back]), IFrame(t, env))
    /\ UNCHANGED <<ret, pc, error>>

InInterpret(at) == pc = "interpret" /\ istack # <<>> /\ Top(istack).pc = at

\* `match ast[0]` raises TypeError when ast is None.
InterpretNone ==
    /\ InInterpret("start")
    /\ Top(istack).ast = None
    /\ Raise("TypeError")
    /\ UNCHANGED <<istack, ret>>
    /\ UNCHANGED <<stdin, stdout, line, tokens, i, pstack, ast, value>>

\* `case Term.VAR`: the value find gives, or the variable itself.
InterpretVar ==
    /\ InInterpret("start")
    /\ Top(istack).ast # None
    /\ Top(istack).ast[1] = "VAR"
    /\ LET f == Top(istack)
           r == find(f.env, f.ast)
       IN IReturn(IF r[1] THEN r[2] ELSE f.ast)
    /\ UNCHANGED <<stdin, stdout, line, tokens, i, pstack, ast, value>>

\* InterpretAbs with the recursive call made on ast, not on ast[2].
InterpretAbsOnItself ==
    /\ InInterpret("start")
    /\ Top(istack).ast # None
    /\ Top(istack).ast[1] = "ABS"
    /\ LET f == Top(istack)
       IN ICall("abs_ret", f.ast, Append(f.env, Frame(f.ast[2], f.ast[2])))
    /\ UNCHANGED <<stdin, stdout, line, tokens, i, pstack, ast, value>>

\* InterpretAbs that returns the abstraction as it is, its body not interpreted.
InterpretAbsNoDescend ==
    /\ InInterpret("start")
    /\ Top(istack).ast # None
    /\ Top(istack).ast[1] = "ABS"
    /\ IReturn(Top(istack).ast)
    /\ UNCHANGED <<stdin, stdout, line, tokens, i, pstack, ast, value>>

\* `case Term.ABS`: the body is interpreted under a frame that binds the
\* parameter to itself.
InterpretAbs ==
    /\ InInterpret("start")
    /\ Top(istack).ast # None
    /\ Top(istack).ast[1] = "ABS"
    /\ LET f == Top(istack)
       IN ICall("abs_ret", f.ast[3], Append(f.env, Frame(f.ast[2], f.ast[2])))
    /\ UNCHANGED <<stdin, stdout, line, tokens, i, pstack, ast, value>>

\* `return (ast[0], ast[1], interpret(...))`.
InterpretAbsReturn ==
    /\ InInterpret("abs_ret")
    /\ LET f == Top(istack) IN IReturn(<<f.ast[1], f.ast[2], ret>>)
    /\ UNCHANGED <<stdin, stdout, line, tokens, i, pstack, ast, value>>

\* `case Term.APP` with an abstraction in function position: the argument
\* is interpreted first, in the environment of the application.
InterpretRedex ==
    /\ InInterpret("start")
    /\ Top(istack).ast # None
    /\ Top(istack).ast[1] = "APP"
    /\ Top(istack).ast[2] # None
    /\ Top(istack).ast[2][1] = "ABS"
    /\ LET f == Top(istack) IN ICall("arg_ret", f.ast[3], f.env)
    /\ UNCHANGED <<stdin, stdout, line, tokens, i, pstack, ast, value>>

\* InterpretRedexBody with the frame of the parameter left out.
InterpretRedexBodyNoBind ==
    /\ InInterpret("arg_ret")
    /\ LET f == Top(istack) IN ICall("body_ret", f.ast[2][3], f.env)
    /\ UNCHANGED <<stdin, stdout, line, tokens, i, pstack, ast, value>>

\* The body of the abstraction is interpreted under a frame that binds the
\* parameter to the argument's value.
InterpretRedexBody ==
    /\ InInterpret("arg_ret")
    /\ LET f == Top(istack)
       IN ICall("body_ret", f.ast[2][3], Append(f.env, Frame(f.ast[2][2], ret)))
    /\ UNCHANGED <<stdin, stdout, line, tokens, i, pstack, ast, value>>

\* `return interpret(ast[1][2], ...)`.
InterpretRedexReturn ==
    /\ InInterpret("body_ret")
    /\ IReturn(ret)
    /\ UNCHANGED <<stdin, stdout, line, tokens, i, pstack, ast, value>>

\* `case Term.APP` with anything else in function position: `return ast`.
\* A None in function position makes ast[1][0] raise TypeError.
InterpretStuck ==
    /\ InInterpret("start")
    /\ Top(istack).ast # None
    /\ Top(istack).ast[1] = "APP"
    /\ IF Top(istack).ast[2] = None
       THEN /\ Raise("TypeError")
            /\ UNCHANGED <<istack, ret>>
       ELSE /\ Top(istack).ast[2][1] # "ABS"
            /\ IReturn(Top(istack).ast)
    /\ UNCHANGED <<stdin, stdout, line, tokens, i, pstack, ast, value>>

\* interpret(ast, []) has returned, and textify is called on its value.
InterpretDone ==
    /\ pc = "interpret"
    /\ istack = <<>>
    /\ value' = ret
    /\ pc' = "print"
    /\ UNCHANGED <<stdin, stdout, line, tokens, i, pstack, ast, istack, ret, error>>

\* `print(textify(...))`, then the prompt.  textify raises TypeError at a None.
PrintValue ==
    /\ pc = "print"
    /\ IF textifyRaises(value)
       THEN /\ Raise("TypeError")
            /\ UNCHANGED stdout
       ELSE /\ stdout' = stdout \o <<textify(value), Prompt>>
            /\ pc' = "read"
            /\ UNCHANGED error
    /\ UNCHANGED <<stdin, line, tokens, i, pstack, ast, istack, ret, value>>

Next ==
    \/ PrintPrompt \/ ReadLine \/ EndOfInput \/ Scan
    \/ TermWhile \/ TermId \/ TermLeftParen \/ TermNoCase
    \/ AbsStart \/ AbsReturn \/ TermAbsReturn \/ TermApp1Return \/ TermApp2Return
    \/ ParseReturn
    \/ InterpretNone \/ InterpretVar \/ InterpretAbs \/ InterpretAbsReturn
    \/ InterpretRedex \/ InterpretRedexBody \/ InterpretRedexReturn \/ InterpretStuck
    \/ InterpretDone \/ PrintValue

Spec == Init /\ [][Next]_vars

\* The process runs on whenever it has a step to take.
FairSpec == Spec /\ WF_vars(Next)

\* The machine and the function agree on interpret's result.
MachineAgrees ==
    (pc = "print" /\ WellFormed(ast)) => value = interpret(ast, <<>>)

TypeOK ==
    /\ pc \in {"start", "read", "scan", "parse", "interpret", "print", "exited", "crashed"}
    /\ error \in {"", "IndexError", "TypeError"}
    /\ i \in Nat

\* ----------------------------------------------------------------- claims
\* The line repl printed last: the prompt follows it.
LastOutput == stdout[Len(stdout) - 1]
\* The current line has been read, evaluated and printed.
Printed == line # <<>> /\ pc \in {"read", "exited"}

RECURSIVE FreeVars(_)
FreeVars(t) ==
    CASE t[1] = "VAR" -> {t[2]}
      [] t[1] = "ABS" -> FreeVars(t[3]) \ {t[2][2]}
      [] t[1] = "APP" -> FreeVars(t[2]) \cup FreeVars(t[3])

RECURSIVE Depth(_)
Depth(t) ==
    CASE t[1] = "VAR" -> 0
      [] t[1] = "ABS" -> 1 + Depth(t[3])
      [] t[1] = "APP" -> 1 + (IF Depth(t[2]) > Depth(t[3]) THEN Depth(t[2]) ELSE Depth(t[3]))

\* s is t or a term inside t (a parameter is no subterm: interpret never
\* visits it).
RECURSIVE Subterm(_, _)
Subterm(s, t) ==
    \/ s = t
    \/ t[1] = "ABS" /\ Subterm(s, t[3])
    \/ t[1] = "APP" /\ (Subterm(s, t[2]) \/ Subterm(s, t[3]))

StrictSubterm(s, t) == s # t /\ Subterm(s, t)

RECURSIVE AppFree(_)
AppFree(t) ==
    CASE t[1] = "VAR" -> TRUE
      [] t[1] = "ABS" -> AppFree(t[3])
      [] t[1] = "APP" -> FALSE

\* C1 as stated: with the lambda written U+03BB, the pipeline prints "y" for
\* the identity applied to y and "(λy.z)" for K applied to z.
C1_GreekRedexReduced ==
    /\ (Printed /\ line = IdentityLineGreek) => LastOutput = <<"y">>
    /\ (Printed /\ line = KLineGreek)
          => LastOutput = <<"(", GreekLambda, "y", ".", "z", ")">>

\* C1 amended: with the lambda written U+1D6CC or as a backslash, the
\* pipeline prints "y" for the identity applied to y, and for K applied to z
\* the abstraction of y over z, its lambda printed as U+1D6CC.
C1_RedexReduced ==
    /\ (Printed /\ line \in {IdentityLine, IdentityLineAscii}) => LastOutput = <<"y">>
    /\ (Printed /\ line \in {KLine, KLineAscii})
          => LastOutput = <<"(", BoldLamda, "y", ".", "z", ")">>

C1_Witness ==
    /\ Printed
    /\ line = KLine
    /\ ast = App(Abs(Var("x"), Abs(Var("y"), Var("x"))), Var("z"))
    /\ LastOutput = <<"(", BoldLamda, "y", ".", "z", ")">>

WhiteSpace == {Space, Tab, Newline}

\* The token the claim gives a character that is no white space.
C2_ClaimedToken(c) ==
    CASE c \in {GreekLambda, Backslash} -> Token("LAMBDA", "")
      [] c = "." -> Token("DOT", "")
      [] c = "(" -> Token("LEFT_PAREN", "")
      [] c = ")" -> Token("RIGHT_PAREN", "")
      [] OTHER -> Token("ID", c)

\* C2 as stated: scan drops every white-space character, makes a Lambda of
\* U+03BB and of the backslash, a Dot, LeftParen or RightParen of `.`, `(`
\* and `)`, and an Identifier of any other character, in the order of the
\* text; its output is as long as the text has characters that are no white
\* space.  (Stated for the texts without U+1D6CC, which the claim does not
\* name.)
C2_ScanDropsWhiteSpace ==
    (pc = "parse" /\ \A k \in 1..Len(line) : line[k] # BoldLamda) =>
        LET kept == SelectSeq(line, LAMBDA c : c \notin WhiteSpace)
        IN /\ Len(tokens) = Len(kept)
           /\ \A k \in 1..Len(kept) :
                 k <= Len(tokens) => tokens[k] = C2_ClaimedToken(kept[k])

\* C2 amended: scan drops the space character alone, makes a Lambda of
\* U+1D6CC and of the backslash, a Dot, LeftParen or RightParen of `.`, `(`
\* and `)`, and an Identifier of any other character (a tab, a newline and
\* U+03BB among them), in the order of the text; its output is as long as
\* the text has characters other than the space.
C2_ScanDropsSpaces ==
    pc = "parse" =>
        LET kept == SelectSeq(line, LAMBDA c : c # Space)
        IN /\ Len(tokens) = Len(kept)
           /\ \A k \in 1..Len(kept) :
                 /\ tokens[k][1] = "LAMBDA" <=> kept[k] \in {BoldLamda, Backslash}
                 /\ tokens[k][1] = "DOT" <=> kept[k] = "."
                 /\ tokens[k][1] = "LEFT_PAREN" <=> kept[k] = "("
                 /\ tokens[k][1] = "RIGHT_PAREN" <=> kept[k] = ")"
                 /\ tokens[k][1] \in {"LAMBDA", "DOT", "LEFT_PAREN", "RIGHT_PAREN", "ID"}
                 /\ tokens[k][2] = (IF tokens[k][1] = "ID" THEN kept[k] ELSE "")

C2_Witness ==
    /\ pc = "parse"
    /\ line = <<GreekLambda, Newline>>
    /\ tokens = <<Token("ID", GreekLambda), Token("ID", Newline)>>

\* C3: parse of the one token of ")" ends in a ParseError: it does not run
\* forever, crash the process or return a term.
C3_RightParenIsParseError ==
    (pc = "parse" /\ tokens = <<Token("RIGHT_PAREN", "")>>) ~> (error = "ParseError")

\* C4: repl ends only when the input is exhausted: a line that cannot be
\* parsed leaves the later lines to be read.
C4_EndsOnlyAtEndOfInput ==
    pc \in {"exited", "crashed"} => stdin = <<>>

\* C5: interpret of a well-formed term makes every recursive call on a
\* strict subterm of its argument, so that the calls in progress are never
\* more than the depth of the term plus one; it raises no error and it
\* returns.
C5_StrictDescent ==
    WellFormed(ast) =>
        /\ error # "TypeError"
        /\ pc = "interpret" =>
              /\ Len(istack) <= Depth(ast) + 1
              /\ \A k \in 2..Len(istack) : StrictSubterm(istack[k].ast, istack[k - 1].ast)

C5_InterpretTerminates ==
    /\ []C5_StrictDescent
    /\ (pc = "interpret" /\ WellFormed(ast)) ~> (pc = "print" /\ WellFormed(value))

C5_Witness ==
    /\ pc = "interpret"
    /\ WellFormed(ast)
    /\ Len(istack) = 4
    /\ Depth(ast) = 3

\* C6: interpret is idempotent on its results: interpreting the value of a
\* well-formed term again, in the empty environment, prints the same text.
C6_Idempotent ==
    (pc = "print" /\ WellFormed(ast))
        => textify(interpret(value, <<>>)) = textify(value)

C6_Witness ==
    /\ pc = "print"
    /\ WellFormed(ast)
    /\ ast[1] = "ABS"
    /\ value # ast
    /\ interpret(value, <<>>) = value

\* In res, the result of interpreting body, every occurrence of p in body
\* that is under no application is p still.
RECURSIVE ResolvesToItself(_, _, _)
ResolvesToItself(p, body, res) ==
    CASE body[1] = "VAR" -> (body = p => res = p)
      [] body[1] = "ABS" ->
            /\ res[1] = "ABS"
            /\ res[2] = body[2]
            /\ ResolvesToItself(p, body[3], res[3])
      [] body[1] = "APP" -> TRUE

\* C7: when interpret returns from the body of an abstraction, in whatever
\* environment, the occurrences of the parameter that are under no
\* application are the parameter itself; so (\x.(\x.x)) evaluates to itself
\* and the inner x of ((\x.(\x.x))z) is not replaced by z.
C7_Shadowing ==
    /\ (InInterpret("abs_ret") /\ WellFormed(Top(istack).ast))
          => ResolvesToItself(Top(istack).ast[2], Top(istack).ast[3], ret)
    /\ (pc = "print" /\ ast = Abs(Var("x"), Abs(Var("x"), Var("x")))) => value = ast
    /\ (pc = "print" /\ ast = App(Abs(Var("x"), Abs(Var("x"), Var("x"))), Var("z")))
          => value = Abs(Var("x"), Var("x"))

C7_Witness ==
    /\ InInterpret("abs_ret")
    /\ Top(istack).ast = Abs(Var("x"), Var("x"))
    /\ Top(istack).env = <<Frame(Var("x"), Var("z"))>>
    /\ ret = Var("x")

\* C8: the value of a redex App(Abs(p, body), arg) in which p is not free
\* in arg has no free occurrence of p.
C8_ParameterSubstituted ==
    (/\ pc = "print"
     /\ WellFormed(ast)
     /\ ast[1] = "APP"
     /\ ast[2][1] = "ABS"
     /\ ast[2][2][2] \notin FreeVars(ast[3]))
        => ast[2][2][2] \notin FreeVars(value)

\* C9: parse terminates on every token sequence.
C9_ParseTerminates ==
    (pc = "parse") ~> (pc # "parse")

\* Distinct enumerated terms print as distinct texts.
TextInjective == Cardinality(TermLines) = Cardinality(Terms)

\* C10: parse(scan(textify(t))) is t, for a term t whose names are
\* identifier characters, and the cursor of parse ends at the end of the
\* tokens.  (The text of a term is the text of no other term, so the term
\* parsed from it is t as soon as it is a term that prints as the line.)
C10_RoundTrip ==
    /\ TextInjective
    /\ line \in TermLines =>
          /\ error # "IndexError"
          /\ ~ ENABLED TermNoCase
    /\ (pc = "interpret" /\ line \in TermLines) =>
          /\ ast \in Terms
          /\ TextOf[ast] = line
          /\ i = Len(tokens)

C10_Witness ==
    /\ pc = "interpret"
    /\ ast = Abs(Var(GreekLambda), App(Var(GreekLambda), Var(Tab)))
    /\ line = <<"(", BoldLamda, GreekLambda, ".", "(", GreekLambda, Tab, ")", ")">>
    /\ i = 9
    /\ Len(tokens) = 9

=============================================================================
